---- MODULE Spec2Model ----
(***************************************************************************)
(* Model of the flight-ticket ingestion pipeline of ykykyk0814/TRS:        *)
(*   airflow/dags/multi_database_handler.py  (MultiDatabaseHandler)        *)
(*   airflow/dags/data_transformer.py        (FlightTicketTransformer)     *)
(*                                                                         *)
(* The sinks are PostgreSQL databases (psycopg2 URLs, SERIAL, DO $$ ...,   *)
(* pg_constraint, ON CONFLICT in the SQL text).  The database is modelled  *)
(* with PostgreSQL's transaction rules:                                    *)
(*   - a statement that fails on the server puts the transaction into the  *)
(*     failed state: every later statement of the transaction fails too,   *)
(*     and a COMMIT of it is executed as a ROLLBACK without an error;      *)
(*   - a statement that SQLAlchemy rejects before sending it (a record     *)
(*     that lacks a bind parameter) leaves the transaction untouched;      *)
(*   - DDL is transactional.                                               *)
(* The code opens one transaction per sink (engine.begin()) and uses no    *)
(* savepoint.                                                              *)
(***************************************************************************)
EXTENDS Integers, Sequences, FiniteSets, TLC

VARIABLES
    database_configs, \* sink name -> kind of its connection string
    engines,          \* self.engines: the sink names that have an engine, in dict order
    records,          \* the list handed to bulk_insert_flight_tickets
    table,            \* committed rows of flight_tickets, per sink
    schema,           \* committed schema objects, per sink
    pc,               \* position of the coordinator
    cur,              \* index in engines of the sink being processed
    txRows,           \* rows as seen by the open transaction
    txSchema,         \* schema as seen by the open transaction
    txState,          \* "none" | "active" | "failed"
    successful_inserts, \* local counter of the sink being processed
    i,                \* offset of the current chunk (range(0, len, batch_size))
    j,                \* position in the chunk of the fallback loop
    results,          \* the dict returned by bulk_insert_flight_tickets
    log,              \* history: insert statements issued on the current sink
    outcome,          \* history: how each sink's transaction ended in this call
    txWrites,         \* history: record writes applied inside the open transaction
    preRows,          \* history: committed rows of the sink when its transaction began
    durable,          \* history: record writes of this call that the commit made durable
    runs,             \* number of bulk_insert_flight_tickets calls started
    ones,             \* number of standalone insert_flight_ticket calls
    open,             \* history: the sinks that have a transaction open
    offer,            \* the offer handed to the transformer
    verdict,          \* result of validate_amadeus_offer on offer
    ticket,           \* result of transform_amadeus_offer_to_ticket on offer
    offers,           \* the list handed to transform_amadeus_offers_batch
    transformed_records, \* the list it returned
    original_count,   \* arguments of get_transformation_stats
    transformed_count,
    stats             \* the dict it returned

vars == <<database_configs, engines, records, table, schema, pc, cur, txRows,
          txSchema, txState, successful_inserts, i, j, results, log, outcome,
          txWrites, preRows, durable, runs, ones, open, offer, verdict, ticket,
          offers, transformed_records, original_count, transformed_count, stats>>

dbVars == <<database_configs, engines, records, table, schema, pc, cur, txRows,
            txSchema, txState, successful_inserts, i, j, results, log, outcome,
            txWrites, preRows, durable, runs, ones, open>>

\* the state of the transformer's callers
tfVars == <<offer, verdict, ticket, offers, transformed_records,
            original_count, transformed_count, stats>>

batchVars == <<offers, transformed_records>>

statsVars == <<original_count, transformed_count, stats>>

(***************************************************************************)
(* Bounds                                                                  *)
(***************************************************************************)
MaxRecords == 3     \* longest submitted record list
MaxCalls == 2       \* calls (writeAll or standalone writeOne) per behaviour
batch_size == 2     \* chunk size; 100 in the source, scaled to the list bound

NumIndexes == 5     \* entries of the indexes list

Sinks == {"airflow", "main_app"}
SinkOrder == <<"airflow", "main_app">>

\* create_engine raises for "badurl"; for "unreachable" it succeeds (engines
\* are lazy) and engine.begin() raises when it connects.
ConnKinds == {"ok", "unreachable", "badurl"}

(***************************************************************************)
(* Records and rows                                                        *)
(***************************************************************************)
\* key: the natural key (user_id, origin, destination, departure_time);
\* val: (arrival_time, seat_number, notes); bound: the dict has every bind
\* parameter of the INSERT statement.
Rec(k, v, b) == [key |-> k, val |-> v, bound |-> b]

RecordSet == { Rec(1, 1, TRUE), Rec(2, 1, TRUE), Rec(3, 1, TRUE), Rec(1, 2, TRUE), Rec(2, 2, FALSE) }

RecordLists == UNION { [1..n -> RecordSet] : n \in 0..MaxRecords }

\* rev counts the DO UPDATE executions on the row (updated_at moves with it)
NewRow(r) == [key |-> r.key, val |-> r.val, rev |-> 0]

KeysOf(rows) == { rows[n].key : n \in DOMAIN rows }

Unique(rows) == \A m, n \in DOMAIN rows : m # n => rows[m].key # rows[n].key

NoSchema == [tbl |-> FALSE, uq |-> FALSE, idx |-> 0]

Min(a, b) == IF a < b THEN a ELSE b


(***************************************************************************)
(* The SQL statements, as PostgreSQL executes them                         *)
(***************************************************************************)
\* a DDL statement raises "already exists" iff its object exists and the
\* statement does not test for it
Duplicate(exists, if_not_exists) == exists /\ ~if_not_exists

\* variant: ALTER TABLE ... ADD CONSTRAINT without the pg_constraint test
DuplicateObject_BlindConstraint(sc) ==
    \/ Duplicate(sc.tbl, TRUE)
    \/ Duplicate(sc.uq, FALSE)

\* CREATE TABLE IF NOT EXISTS; DO $$ IF NOT EXISTS (SELECT 1 FROM
\* pg_constraint ...) THEN ALTER TABLE ... ADD CONSTRAINT: does one of them
\* raise on the objects that are there?
DuplicateObject(sc) ==
    \/ Duplicate(sc.tbl, TRUE)
    \/ Duplicate(sc.uq, TRUE)

\* CREATE INDEX IF NOT EXISTS, for each entry of the indexes list
DuplicateIndex(sc) == Duplicate(sc.idx > 0, TRUE)

\* everything create_flight_tickets_table creates
FullSchema == [tbl |-> TRUE, uq |-> TRUE, idx |-> NumIndexes]

\* CREATE TABLE IF NOT EXISTS flight_tickets (...)
create_table_query(sc) == [sc EXCEPT !.tbl = TRUE]

\* variant: the constraint is never added
add_constraint_query_Skipped(sc) == sc

\* DO $$ IF NOT EXISTS (constraint) THEN ALTER TABLE ... ADD CONSTRAINT UNIQUE
add_constraint_query(sc) == [sc EXCEPT !.uq = TRUE]

\* the indexes list: CREATE INDEX IF NOT EXISTS, n of them succeed
create_indexes(sc, n) == [sc EXCEPT !.idx = IF n > @ THEN n ELSE @]

\* SQLAlchemy refuses a parameter set that lacks a bind parameter before
\* anything is sent to the server
ClientError(batch) == \E n \in DOMAIN batch : ~batch[n].bound

\* INSERT INTO flight_tickets ... VALUES ... (executemany, no conflict clause)
batch_insert_query(rows, batch) == rows \o [n \in DOMAIN batch |-> NewRow(batch[n])]

\* the UNIQUE(user_id, origin, destination, departure_time) constraint
\* rejects the statement iff the table would hold two rows with one key
UniqueViolation(sc, rows, batch) == sc.uq /\ ~Unique(batch_insert_query(rows, batch))

\* variant: ON CONFLICT DO NOTHING
insert_query_DoNothing(rows, r) ==
    IF r.key \in KeysOf(rows) THEN rows ELSE Append(rows, NewRow(r))

\* INSERT ... ON CONFLICT (natural key) DO UPDATE SET arrival_time, seat_number,
\* notes = EXCLUDED.*, updated_at = CURRENT_TIMESTAMP
insert_query(rows, r) ==
    IF r.key \in KeysOf(rows)
    THEN [n \in DOMAIN rows |->
            IF rows[n].key = r.key
            THEN [key |-> r.key, val |-> r.val, rev |-> rows[n].rev + 1]
            ELSE rows[n]]
    ELSE Append(rows, NewRow(r))

(***************************************************************************)
(* MultiDatabaseHandler.__init__ / _initialize_engines                     *)
(***************************************************************************)
\* self.engines gets an entry only for the sinks whose create_engine call
\* did not raise; the except branch logs and stores nothing.
initialize_engines(cfg) == SelectSeq(SinkOrder, LAMBDA s : cfg[s] # "badurl")

SetResult(res, s, v) == [t \in (DOMAIN res) \cup {s} |-> IF t = s THEN v ELSE res[t]]

NoResults == [t \in {} |-> 0]

sink == engines[cur]

\* variant: the slice ends one record early
batch_OneShort == SubSeq(records, i + 1, Min(i + batch_size - 1, Len(records)))

\* batch = records[i : i + batch_size]
batch == SubSeq(records, i + 1, Min(i + batch_size, Len(records)))

Event(op, at, ok) == [op |-> op, at |-> at, ok |-> ok]

\* validate_amadeus_offer has not been called
NoVerdict == [kind |-> "none", msg |-> ""]

\* transform_amadeus_offer_to_ticket has not been called
NoTicket == [kind |-> "none"]

\* transform_amadeus_offers_batch has not returned
NoBatch == [kind |-> "none", list |-> << >>]

\* the transformer has not been handed a batch
NoBatchCall == offers = << >> /\ transformed_records = NoBatch

\* get_transformation_stats has not been called
NoStats == [kind |-> "none"]

NoStatsCall == original_count = 0 /\ transformed_count = 0 /\ stats = NoStats

\* the handler right after __init__, with nothing stored in the sinks
InitHandler(cfg, recs) ==
    /\ database_configs = cfg
    /\ engines = initialize_engines(database_configs)
    /\ records = recs
    /\ table = [s \in Sinks |-> << >>]
    /\ schema = [s \in Sinks |-> NoSchema]
    /\ pc = "idle"
    /\ cur = 0
    /\ txRows = << >>
    /\ txSchema = NoSchema
    /\ txState = "none"
    /\ successful_inserts = 0
    /\ i = 0
    /\ j = 0
    /\ results = NoResults
    /\ log = << >>
    /\ outcome = [s \in Sinks |-> "none"]
    /\ txWrites = 0
    /\ preRows = << >>
    /\ durable = [s \in Sinks |-> 0]
    /\ runs = 0
    /\ ones = 0
    /\ open = {}

Init ==
    /\ \E cfg \in [Sinks -> ConnKinds], recs \in RecordLists : InitHandler(cfg, recs)
    /\ offer = << >>
    /\ verdict = NoVerdict
    /\ ticket = NoTicket
    /\ NoBatchCall
    /\ NoStatsCall

(***************************************************************************)
(* bulk_insert_flight_tickets (writeAll)                                   *)
(***************************************************************************)
\* a call starts: results = {}
StartWriteAll ==
    /\ pc = "idle"
    /\ runs + ones < MaxCalls
    /\ runs' = runs + 1
    /\ results' = NoResults
    /\ cur' = 1
    /\ pc' = "loop"
    /\ log' = << >>
    /\ outcome' = [s \in Sinks |-> "none"]
    /\ durable' = [s \in Sinks |-> 0]
    /\ UNCHANGED <<database_configs, engines, records, table, schema, txRows,
                   txSchema, txState, successful_inserts, i, j, txWrites, preRows, ones,
                   open, tfVars>>

\* for db_name, engine in self.engines.items(): exhausted -> return results
ReturnResults ==
    /\ pc = "loop"
    /\ cur > Len(engines)
    /\ pc' = "idle"
    /\ UNCHANGED <<database_configs, engines, records, table, schema, cur, txRows,
                   txSchema, txState, successful_inserts, i, j, results, log,
                   outcome, txWrites, preRows, durable, runs, ones, open, tfVars>>

\* engine.begin() raises (the host cannot be reached): except Exception
BeginFails ==
    /\ pc = "loop"
    /\ cur <= Len(engines)
    /\ database_configs[sink] = "unreachable"
    /\ results' = SetResult(results, sink, 0)
    /\ outcome' = [outcome EXCEPT ![sink] = "unreachable"]
    /\ cur' = cur + 1
    /\ log' = << >>
    /\ preRows' = table[sink]
    /\ UNCHANGED <<database_configs, engines, records, table, schema, pc, txRows,
                   txSchema, txState, successful_inserts, i, j, txWrites, durable,
                   runs, ones, open, tfVars>>

\* variant: the records are written without the schema step
BeginSink_SkipsSchema ==
    /\ pc = "loop"
    /\ cur <= Len(engines)
    /\ database_configs[sink] = "ok"
    /\ successful_inserts' = 0
    /\ txRows' = table[sink]
    /\ txSchema' = schema[sink]
    /\ txState' = "active"
    /\ txWrites' = 0
    /\ preRows' = table[sink]
    /\ log' = << >>
    /\ open' = open \cup {sink}
    /\ pc' = "batch"
    /\ UNCHANGED <<database_configs, engines, records, table, schema, cur, i, j,
                   results, outcome, durable, runs, ones, tfVars>>

\* successful_inserts = 0; with engine.begin() as connection
BeginSink ==
    /\ pc = "loop"
    /\ cur <= Len(engines)
    /\ database_configs[sink] = "ok"
    /\ successful_inserts' = 0
    /\ txRows' = table[sink]
    /\ txSchema' = schema[sink]
    /\ txState' = "active"
    /\ txWrites' = 0
    /\ preRows' = table[sink]
    /\ log' = << >>
    /\ open' = open \cup {sink}
    /\ pc' = "schema"
    /\ UNCHANGED <<database_configs, engines, records, table, schema, cur, i, j,
                   results, outcome, durable, runs, ones, tfVars>>

\* variant: the connection is not released and its transaction stays open
CloseTx_Leaks ==
    /\ txRows' = << >>
    /\ txSchema' = NoSchema
    /\ txState' = "none"
    /\ txWrites' = 0
    /\ successful_inserts' = 0
    /\ i' = 0
    /\ j' = 0
    /\ UNCHANGED <<preRows, open>>

\* the with block is left: the transaction has ended (committed or rolled
\* back) and the connection is released
CloseTx ==
    /\ txRows' = << >>
    /\ txSchema' = NoSchema
    /\ txState' = "none"
    /\ txWrites' = 0
    /\ successful_inserts' = 0
    /\ i' = 0
    /\ j' = 0
    /\ open' = open \ {sink}
    /\ UNCHANGED preRows

\* variant: the except branch keeps the count reached so far
SinkRaised_KeepsCount ==
    /\ results' = SetResult(results, sink, successful_inserts)
    /\ outcome' = [outcome EXCEPT ![sink] = "raised"]
    /\ cur' = cur + 1
    /\ pc' = "loop"
    /\ CloseTx
    /\ UNCHANGED <<table, schema, durable>>

\* variant: the rows written before the exception stay in the sink
SinkRaised_NoRollback ==
    /\ results' = SetResult(results, sink, 0)
    /\ outcome' = [outcome EXCEPT ![sink] = "raised"]
    /\ cur' = cur + 1
    /\ pc' = "loop"
    /\ CloseTx
    /\ table' = [table EXCEPT ![sink] = txRows]
    /\ UNCHANGED <<schema, durable>>

\* variant: the except branch starts the results over
SinkRaised_ResetsResults ==
    /\ results' = [t \in (DOMAIN results) \cup {sink} |-> 0]
    /\ outcome' = [outcome EXCEPT ![sink] = "raised"]
    /\ cur' = cur + 1
    /\ pc' = "loop"
    /\ CloseTx
    /\ UNCHANGED <<table, schema, durable>>

\* except Exception as e: results[db_name] = 0 (the with block has rolled back)
\* variant: the exception leaves bulk_insert_flight_tickets
SinkRaised_Propagates ==
    /\ outcome' = [outcome EXCEPT ![sink] = "raised"]
    /\ results' = results
    /\ cur' = cur
    /\ pc' = "idle"
    /\ CloseTx
    /\ UNCHANGED <<table, schema, durable>>

SinkRaised ==
    /\ results' = SetResult(results, sink, 0)
    /\ outcome' = [outcome EXCEPT ![sink] = "raised"]
    /\ cur' = cur + 1
    /\ pc' = "loop"
    /\ CloseTx
    /\ UNCHANGED <<table, schema, durable>>

\* variant: the failure is logged and the sink goes on to its records
SchemaFails_Swallowed ==
    /\ pc = "schema"
    /\ txState' = "failed"
    /\ i' = 0
    /\ pc' = "batch"
    /\ log' = << Event("schema", 0, FALSE) >>
    /\ UNCHANGED <<database_configs, engines, records, table, schema, cur, txRows,
                   txSchema, successful_inserts, j, results, outcome, txWrites,
                   preRows, durable, runs, ones, open, tfVars>>

\* create_flight_tickets_table: CREATE TABLE or ADD CONSTRAINT fails,
\* DatabaseError leaves the with block
SchemaFails ==
    /\ pc = "schema"
    /\ SinkRaised
    /\ log' = << Event("schema", 0, FALSE) >>
    /\ UNCHANGED <<database_configs, engines, records, runs, ones, tfVars>>

\* create_flight_tickets_table: table and constraint are there (neither
\* statement raised, on a duplicate or otherwise); the index loop swallows
\* its failures.  firstFail = 0: every index statement succeeds; otherwise
\* index firstFail fails on the server and the transaction is failed from
\* then on.
SchemaReady(firstFail) ==
    /\ pc = "schema"
    /\ ~DuplicateObject(txSchema)
    /\ firstFail = 0 => ~DuplicateIndex(txSchema)
    /\ txSchema' = create_indexes(add_constraint_query(create_table_query(txSchema)),
                                  IF firstFail = 0 THEN NumIndexes ELSE firstFail - 1)
    /\ txState' = IF firstFail = 0 THEN "active" ELSE "failed"
    /\ i' = 0
    /\ pc' = "batch"
    /\ log' = << Event("indexes", firstFail, firstFail = 0) >>
    /\ UNCHANGED <<database_configs, engines, records, table, schema, cur, txRows,
                   successful_inserts, j, results, outcome, txWrites, preRows, durable,
                   runs, ones, open, tfVars>>

(***************************************************************************)
(* _bulk_insert_with_batching (writeBatch)                                 *)
(***************************************************************************)
\* connection.execute(text(batch_insert_query), batch) succeeds
\* variant: the chunk is taken off the head of the submitted list
BulkOk_Consumes ==
    /\ pc = "batch"
    /\ i < Len(records)
    /\ txState = "active"
    /\ txSchema.tbl
    /\ ~ClientError(batch)
    /\ ~UniqueViolation(txSchema, txRows, batch)
    /\ txRows' = batch_insert_query(txRows, batch)
    /\ successful_inserts' = successful_inserts + Len(batch)
    /\ txWrites' = txWrites + Len(batch)
    /\ UNCHANGED preRows
    /\ log' = Append(log, Event("bulk", i, TRUE))
    /\ records' = SubSeq(records, Len(batch) + 1, Len(records))
    /\ i' = i
    /\ UNCHANGED <<database_configs, engines, table, schema, pc, cur,
                   txSchema, txState, j, results, outcome, durable, runs, ones,
                   open, tfVars>>

BulkOk ==
    /\ pc = "batch"
    /\ i < Len(records)
    /\ txState = "active"
    /\ txSchema.tbl
    /\ ~ClientError(batch)
    /\ ~UniqueViolation(txSchema, txRows, batch)
    /\ txRows' = batch_insert_query(txRows, batch)
    /\ successful_inserts' = successful_inserts + Len(batch)
    /\ txWrites' = txWrites + Len(batch)
    /\ UNCHANGED preRows
    /\ log' = Append(log, Event("bulk", i, TRUE))
    /\ i' = i + batch_size
    /\ UNCHANGED <<database_configs, engines, records, table, schema, pc, cur,
                   txSchema, txState, j, results, outcome, durable, runs, ones,
                   open, tfVars>>

\* variant: the fallback takes up the chunk at its last record
BulkFails_FromLast ==
    /\ pc = "batch"
    /\ i < Len(records)
    /\ txState' = IF ClientError(batch) THEN txState ELSE "failed"
    /\ log' = Append(log, Event("bulk", i, FALSE))
    /\ j' = Len(batch)
    /\ pc' = "fallback"
    /\ UNCHANGED <<database_configs, engines, records, table, schema, cur, txRows,
                   txSchema, successful_inserts, i, results, outcome, txWrites, preRows,
                   durable, runs, ones, open, tfVars>>

\* the bulk statement raises SQLAlchemyError: rejected by SQLAlchemy (the
\* transaction is untouched) or failed on the server (unique violation,
\* failed transaction, transient error: the transaction is failed)
\* variant: the chunk is counted before its bulk insert is executed
BulkFails_CountsChunk ==
    /\ pc = "batch"
    /\ i < Len(records)
    /\ txState' = IF ClientError(batch) THEN txState ELSE "failed"
    /\ log' = Append(log, Event("bulk", i, FALSE))
    /\ j' = 1
    /\ pc' = "fallback"
    /\ successful_inserts' = successful_inserts + Len(batch)
    /\ UNCHANGED <<database_configs, engines, records, table, schema, cur, txRows,
                   txSchema, i, results, outcome, txWrites, preRows,
                   durable, runs, ones, open, tfVars>>

BulkFails ==
    /\ pc = "batch"
    /\ i < Len(records)
    /\ txState' = IF ClientError(batch) THEN txState ELSE "failed"
    /\ log' = Append(log, Event("bulk", i, FALSE))
    /\ j' = 1
    /\ pc' = "fallback"
    /\ UNCHANGED <<database_configs, engines, records, table, schema, cur, txRows,
                   txSchema, successful_inserts, i, results, outcome, txWrites, preRows,
                   durable, runs, ones, open, tfVars>>

\* for record in batch: next record, or next chunk after the last one
NextRecord ==
    IF j < Len(batch)
    THEN j' = j + 1 /\ UNCHANGED <<pc, i>>
    ELSE j' = 0 /\ i' = i + batch_size /\ pc' = "batch"

\* self.insert_flight_ticket(db_name, connection, record) succeeds
UpsertOk ==
    /\ pc = "fallback"
    /\ txState = "active"
    /\ txSchema.tbl /\ txSchema.uq
    /\ batch[j].bound
    /\ txRows' = insert_query(txRows, batch[j])
    /\ successful_inserts' = successful_inserts + 1
    /\ txWrites' = txWrites + 1
    /\ UNCHANGED preRows
    /\ log' = Append(log, Event("one", i + j, TRUE))
    /\ NextRecord
    /\ UNCHANGED <<database_configs, engines, records, table, schema, cur,
                   txSchema, txState, results, outcome, durable, runs, ones,
                   open, tfVars>>

\* variant: a failed record ends the fallback of its chunk
UpsertFails_Breaks ==
    /\ pc = "fallback"
    /\ txState' = IF batch[j].bound THEN "failed" ELSE txState
    /\ log' = Append(log, Event("one", i + j, FALSE))
    /\ j' = 0 /\ i' = i + batch_size /\ pc' = "batch"
    /\ UNCHANGED <<database_configs, engines, records, table, schema, cur, txRows,
                   txSchema, successful_inserts, results, outcome, txWrites, preRows,
                   durable, runs, ones, open, tfVars>>

\* insert_flight_ticket raises DatabaseError, which the loop absorbs
\* `except <clause>` catches an exception of class exc: SQLAlchemyError and
\* DatabaseError both derive from Exception and not from each other
Handles(clause, exc) == clause = exc \/ clause = "Exception"

\* variant: insert_flight_ticket lets the driver's error pass as it is
insert_flight_ticket_raises_DriverError == "SQLAlchemyError"

\* the class of the exception that leaves insert_flight_ticket when its
\* statement fails: except SQLAlchemyError -> raise DatabaseError
insert_flight_ticket_raises == "DatabaseError"

\* _fallback_individual_inserts from record n on; st.raised when the
\* exception of a failed upsert is not caught by `except DatabaseError`.
\* fails[n]: the statement for record n fails although it could succeed
RECURSIVE fallback_individual_inserts(_, _, _)
fallback_individual_inserts(st, n, fails) ==
    IF n > Len(records) \/ st.raised
    THEN st
    ELSE LET r == records[n]
             ok == /\ st.state = "active"
                   /\ txSchema.tbl /\ txSchema.uq
                   /\ r.bound
                   /\ ~fails[n]
         IN  fallback_individual_inserts(
                 [rows   |-> IF ok THEN insert_query(st.rows, r) ELSE st.rows,
                  state  |-> IF ok \/ ~r.bound THEN st.state ELSE "failed",
                  count  |-> IF ok THEN st.count + 1 ELSE st.count,
                  writes |-> IF ok THEN st.writes + 1 ELSE st.writes,
                  raised |-> ~ok /\ ~Handles("DatabaseError", insert_flight_ticket_raises),
                  log    |-> Append(st.log, Event("whole", n, ok))],
                 n + 1, fails)

\* the exception of the failed upsert has left _bulk_insert_with_batching:
\* except SQLAlchemyError (line 208) runs _fallback_individual_inserts on the
\* whole list; what that lets escape ends the sink (except Exception)
WholeListFallback ==
    /\ Handles("SQLAlchemyError", insert_flight_ticket_raises)
    /\ \E fails \in [DOMAIN records -> BOOLEAN] :
          LET st0 == [rows   |-> txRows,
                      state  |-> IF batch[j].bound THEN "failed" ELSE txState,
                      count  |-> 0,
                      writes |-> txWrites,
                      raised |-> FALSE,
                      log    |-> Append(log, Event("one", i + j, FALSE))]
              st == fallback_individual_inserts(st0, 1, fails)
          IN  IF st.raised
              THEN /\ SinkRaised
                   /\ log' = st.log
              ELSE /\ txRows' = st.rows
                   /\ txState' = st.state
                   /\ successful_inserts' = st.count
                   /\ txWrites' = st.writes
                   /\ log' = st.log
                   /\ j' = 0
                   /\ pc' = "commit"
                   /\ UNCHANGED <<table, schema, cur, txSchema, i, results, outcome,
                                  preRows, durable, open>>

UpsertFails ==
    /\ pc = "fallback"
    /\ IF Handles("DatabaseError", insert_flight_ticket_raises)
       THEN \* except DatabaseError (line 286): on to the next record
            /\ txState' = IF batch[j].bound THEN "failed" ELSE txState
            /\ log' = Append(log, Event("one", i + j, FALSE))
            /\ NextRecord
            /\ UNCHANGED <<table, schema, cur, txRows, txSchema, successful_inserts,
                           results, outcome, txWrites, preRows, durable, open>>
       ELSE WholeListFallback
    /\ UNCHANGED <<database_configs, engines, records, runs, ones, tfVars>>

\* for i in range(0, len(records), batch_size) is exhausted (or not records):
\* return successful_inserts
BatchingReturns ==
    /\ pc = "batch"
    /\ i >= Len(records)
    /\ pc' = "commit"
    /\ UNCHANGED <<database_configs, engines, records, table, schema, cur, txRows,
                   txSchema, txState, successful_inserts, i, j, results, log,
                   outcome, txWrites, preRows, durable, runs, ones, open, tfVars>>

(***************************************************************************)
(* results[db_name] = successful_inserts and the exit of the with block    *)
(***************************************************************************)
\* COMMIT of a healthy transaction
CommitOk ==
    /\ pc = "commit"
    /\ txState = "active"
    /\ table' = [table EXCEPT ![sink] = txRows]
    /\ schema' = [schema EXCEPT ![sink] = txSchema]
    /\ results' = SetResult(results, sink, successful_inserts)
    /\ outcome' = [outcome EXCEPT ![sink] = "committed"]
    /\ durable' = [durable EXCEPT ![sink] = txWrites]
    /\ cur' = cur + 1
    /\ pc' = "loop"
    /\ CloseTx
    /\ UNCHANGED <<database_configs, engines, records, log, runs, ones, tfVars>>

\* COMMIT of a failed transaction: PostgreSQL rolls back and reports no error
CommitOfFailedTx ==
    /\ pc = "commit"
    /\ txState = "failed"
    /\ results' = SetResult(results, sink, successful_inserts)
    /\ outcome' = [outcome EXCEPT ![sink] = "rolledback"]
    /\ cur' = cur + 1
    /\ pc' = "loop"
    /\ CloseTx
    /\ UNCHANGED <<database_configs, engines, records, table, schema, durable, log,
                   runs, ones, tfVars>>

\* the commit itself raises (the connection is gone)
CommitRaises ==
    /\ pc = "commit"
    /\ SinkRaised
    /\ UNCHANGED <<database_configs, engines, records, log, runs, ones, tfVars>>

(***************************************************************************)
(* insert_flight_ticket as a standalone primitive, in its own transaction  *)
(***************************************************************************)
WriteOne(s, r) ==
    /\ pc = "idle"
    /\ runs + ones < MaxCalls
    /\ \E n \in DOMAIN engines : engines[n] = s
    /\ database_configs[s] = "ok"
    /\ ones' = ones + 1
    /\ \/ /\ schema[s].tbl /\ schema[s].uq /\ r.bound
          /\ table' = [table EXCEPT ![s] = insert_query(table[s], r)]
          /\ log' = << [op |-> "writeOne", sink |-> s, rec |-> r, ok |-> TRUE] >>
       \/ /\ log' = << [op |-> "writeOne", sink |-> s, rec |-> r, ok |-> FALSE] >>
          /\ UNCHANGED table
    /\ UNCHANGED <<database_configs, engines, records, schema, pc, cur, txRows,
                   txSchema, txState, successful_inserts, i, j, results, outcome,
                   txWrites, preRows, durable, runs, open, tfVars>>

Next ==
    \/ StartWriteAll
    \/ ReturnResults
    \/ BeginFails
    \/ BeginSink
    \/ SchemaFails
    \/ \E f \in 0..NumIndexes : SchemaReady(f)
    \/ BulkOk
    \/ BulkFails
    \/ UpsertOk
    \/ UpsertFails
    \/ BatchingReturns
    \/ CommitOk
    \/ CommitOfFailedTx
    \/ CommitRaises
    \/ \E s \in Sinks, r \in RecordSet : WriteOne(s, r)

Spec == Init /\ [][Next]_vars

\* the steps of a call in progress: the handler is sequential code, so it
\* takes its next step as soon as the database call it waits for returns
CallStep ==
    \/ ReturnResults
    \/ BeginFails
    \/ BeginSink
    \/ SchemaFails
    \/ \E f \in 0..NumIndexes : SchemaReady(f)
    \/ BulkOk
    \/ BulkFails
    \/ UpsertOk
    \/ UpsertFails
    \/ BatchingReturns
    \/ CommitOk
    \/ CommitOfFailedTx
    \/ CommitRaises

\* the handler used through bulk_insert_flight_tickets only
NextLive == StartWriteAll \/ CallStep

\* every database call returns: a call in progress is never stuck, while
\* nothing obliges the caller to start a call
SpecLive == Init /\ [][NextLive]_vars /\ WF_vars(CallStep)

TypeOK ==
    /\ pc \in {"idle", "loop", "schema", "batch", "fallback", "commit"}
    /\ txState \in {"none", "active", "failed"}
    /\ DOMAIN results \subseteq Sinks


(***************************************************************************)
(* FlightTicketTransformer.validate_amadeus_offer                          *)
(*                                                                         *)
(* An offer is a JSON object.  A leaf is "absent" (the key is not there),  *)
(* "null" (None), "" or a non-empty string; an object or list valued field *)
(* carries a tag "absent" | "null" | "dict" / "list".                      *)
(***************************************************************************)
MaxItins == 2       \* itineraries per offer
MaxSegs == 2        \* segments per itinerary

P(code, at) == [tag |-> "dict", iataCode |-> code, at |-> at]
NullPoint == [tag |-> "null", iataCode |-> "absent", at |-> "absent"]
AbsentPoint == [tag |-> "absent", iataCode |-> "absent", at |-> "absent"]

Seg(d, a) == [departure |-> d, arrival |-> a]

SegSet ==
    { Seg(P("SYD", "T1"), P("BKK", "T2")),
      Seg(P("LAX", "T3"), P("JFK", "T4")),
      Seg(P("", "T1"), NullPoint),
      Seg(P("SYD", "T1"), P("BKK", "absent")),
      Seg(NullPoint, P("BKK", "T2")),
      Seg(P("SYD", ""), AbsentPoint) }

List(items) == [tag |-> "list", items |-> items]
NullList == [tag |-> "null", items |-> << >>]
AbsentList == [tag |-> "absent", items |-> << >>]

SegLists == { List(q) : q \in UNION { [1..n -> SegSet] : n \in 0..MaxSegs } }

ItinSet == { [segments |-> g] : g \in SegLists \cup {NullList, AbsentList} }

ItinLists == { List(q) : q \in UNION { [1..n -> ItinSet] : n \in 0..MaxItins } }

Price(total) == [tag |-> "dict", total |-> total]
PriceSet == { Price("229.47"), Price(""), Price("absent"),
              [tag |-> "null", total |-> "absent"], [tag |-> "absent", total |-> "absent"] }

Offers ==
    [ id : {"1", "null", "absent"},
      itineraries : ItinLists \cup {NullList, AbsentList},
      price : PriceSet ]

\* Python truthiness of a leaf returned by dict.get (absent -> None)
FalsyLeaf(v) == v \in {"absent", "null", ""}

\* `not x` for a list valued field read with .get(key, [])
FalsyList(l) == l.tag \in {"absent", "null"} \/ l.items = << >>

DataValidationError(msg) == [kind |-> "DataValidationError", msg |-> msg]
AttributeError == [kind |-> "AttributeError", msg |-> "'NoneType' object has no attribute 'get'"]
Valid == [kind |-> "ok", msg |-> ""]

\* the body of `for segment in segments` (lines 50-60); None.get faults
validate_segment(seg) ==
    IF seg.departure.tag = "null" THEN AttributeError
    ELSE IF FalsyLeaf(seg.departure.iataCode)
         THEN DataValidationError("Invalid airport codes in segment")
    ELSE IF seg.arrival.tag = "null" THEN AttributeError
    ELSE IF FalsyLeaf(seg.arrival.iataCode)
         THEN DataValidationError("Invalid airport codes in segment")
    ELSE IF FalsyLeaf(seg.departure.at) \/ FalsyLeaf(seg.arrival.at)
         THEN DataValidationError("Missing departure/arrival times")
    ELSE Valid

\* the first verdict of a loop that stops at the first exception
FirstFailure(verdicts) ==
    IF \E n \in DOMAIN verdicts : verdicts[n] # Valid
    THEN verdicts[CHOOSE n \in DOMAIN verdicts :
                    /\ verdicts[n] # Valid
                    /\ \A m \in 1..(n - 1) : verdicts[m] = Valid]
    ELSE Valid

\* variant: an itinerary without segments is passed over
validate_itinerary_SkipsEmpty(itin) ==
    FirstFailure([n \in DOMAIN itin.segments.items |->
                     validate_segment(itin.segments.items[n])])

\* the body of `for itinerary in itineraries` (lines 45-60)
validate_itinerary(itin) ==
    IF FalsyList(itin.segments)
    THEN DataValidationError("No segments found in itinerary")
    ELSE FirstFailure([n \in DOMAIN itin.segments.items |->
                          validate_segment(itin.segments.items[n])])

validate_amadeus_offer(o) ==
    IF o.id = "absent" THEN DataValidationError("Missing required field: id")
    ELSE IF o.itineraries.tag = "absent"
         THEN DataValidationError("Missing required field: itineraries")
    ELSE IF o.price.tag = "absent"
         THEN DataValidationError("Missing required field: price")
    ELSE IF FalsyList(o.itineraries)
         THEN DataValidationError("No itineraries found in offer")
    ELSE LET v == FirstFailure([n \in DOMAIN o.itineraries.items |->
                                  validate_itinerary(o.itineraries.items[n])])
         IN  IF v # Valid THEN v
             ELSE IF o.price.tag = "null" THEN AttributeError
             ELSE IF FalsyLeaf(o.price.total)
                  THEN DataValidationError("Missing price information")
             ELSE Valid

InitV ==
    /\ InitHandler([s \in Sinks |-> "ok"], << >>)
    /\ offer \in Offers
    /\ verdict = NoVerdict
    /\ ticket = NoTicket
    /\ NoBatchCall
    /\ NoStatsCall

\* transformer.validate_amadeus_offer(offer)
Validate ==
    /\ verdict = NoVerdict
    /\ verdict' = validate_amadeus_offer(offer)
    /\ UNCHANGED <<offer, ticket, batchVars, statsVars, dbVars>>

NextV == Validate

SpecV == InitV /\ [][NextV]_vars

(***************************************************************************)
(* FlightTicketTransformer.extract_flight_legs and                         *)
(* transform_amadeus_offer_to_ticket                                       *)
(***************************************************************************)
\* self.default_user_id, as the callers construct the transformer
default_user_id == "00000000-0000-0000-0000-000000000000"

None == [kind |-> "None"]
KeyError == [kind |-> "KeyError", msg |-> ""]
TypeError == [kind |-> "TypeError", msg |-> "'NoneType' object is not subscriptable"]

Legs(first_leg, last_leg) == [kind |-> "legs", first_leg |-> first_leg, last_leg |-> last_leg]

\* variant: the last leg is taken from the first itinerary
extract_flight_legs_FirstItinerary(o) ==
    IF FalsyList(o.itineraries) THEN None
    ELSE LET itineraries == o.itineraries.items
             first_segments == itineraries[1].segments
         IN  IF FalsyList(first_segments) THEN None
             ELSE Legs(first_segments.items[1],
                       first_segments.items[Len(first_segments.items)])

\* (first_leg, last_leg), or None for the pair (None, None)
extract_flight_legs(o) ==
    IF FalsyList(o.itineraries) THEN None
    ELSE LET itineraries == o.itineraries.items
             first_segments == itineraries[1].segments
             last_segments == itineraries[Len(itineraries)].segments
         IN  IF FalsyList(first_segments) THEN None
             ELSE IF FalsyList(last_segments) THEN None
             ELSE Legs(first_segments.items[1],
                       last_segments.items[Len(last_segments.items)])

\* `not leg` for a segment: the empty dict
FalsyDict(seg) == seg.departure.tag = "absent" /\ seg.arrival.tag = "absent"

\* point[key] raises for None and for a key that is not there
SubscriptFault(point, key) ==
    IF point.tag = "absent" THEN KeyError
    ELSE IF point.tag = "null" THEN TypeError
    ELSE IF point[key] = "absent" THEN KeyError
    ELSE Valid

\* the record literal of lines 123-131, its subscripts evaluated in order
Record(o, first_leg, last_leg) ==
    LET fault == FirstFailure(<< SubscriptFault(first_leg.departure, "iataCode"),
                                 SubscriptFault(last_leg.arrival, "iataCode"),
                                 SubscriptFault(first_leg.departure, "at"),
                                 SubscriptFault(last_leg.arrival, "at") >>)
    IN  IF fault # Valid THEN fault
        ELSE [ kind |-> "record",
               user_id |-> default_user_id,
               origin |-> first_leg.departure.iataCode,
               destination |-> last_leg.arrival.iataCode,
               departure_time |-> first_leg.departure.at,
               arrival_time |-> last_leg.arrival.at,
               seat_number |-> "null",
               notes |-> IF o.id = "absent" THEN "null" ELSE o.id ]

\* the body of the try block: a record, None or the exception it raises
transform_try(o) ==
    LET v == validate_amadeus_offer(o)
    IN  IF v # Valid THEN v
        ELSE LET legs == extract_flight_legs(o)
             IN  IF legs.kind = "None" THEN None
                 ELSE IF FalsyDict(legs.first_leg) \/ FalsyDict(legs.last_leg) THEN None
                 ELSE Record(o, legs.first_leg, legs.last_leg)

\* variant: only DataValidationError is caught
transform_amadeus_offer_to_ticket_Propagates(o) ==
    LET r == transform_try(o)
    IN  IF r.kind = "DataValidationError" THEN None
        ELSE r

\* except DataValidationError: return None; except Exception: return None
transform_amadeus_offer_to_ticket(o) ==
    LET r == transform_try(o)
    IN  IF r.kind = "DataValidationError" THEN None
        ELSE IF r.kind \in {"AttributeError", "KeyError", "TypeError"} THEN None
        ELSE r

\* offers of up to MaxItins itineraries of up to MaxSegs segments (two
\* complete segments and one whose departure is null); the id, the price,
\* the itineraries and an itinerary's segments may be null
LegSet ==
    { Seg(P("SYD", "T1"), P("BKK", "T2")),
      Seg(P("LAX", "T3"), P("JFK", "T4")),
      Seg(NullPoint, P("BKK", "T2")) }

LegLists == { List(q) : q \in UNION { [1..n -> LegSet] : n \in 0..MaxSegs } }

TransformOffers ==
    [ id : {"1", "null"},
      itineraries : { List(q) : q \in UNION { [1..n -> { [segments |-> g] :
                                                          g \in LegLists \cup {NullList} }] :
                                                n \in 0..MaxItins } } \cup {NullList},
      price : { Price("229.47"), [tag |-> "null", total |-> "absent"] } ]

InitT ==
    /\ InitHandler([s \in Sinks |-> "ok"], << >>)
    /\ offer \in TransformOffers
    /\ verdict = NoVerdict
    /\ ticket = NoTicket
    /\ NoBatchCall
    /\ NoStatsCall

\* transformer.transform_amadeus_offer_to_ticket(offer)
Transform ==
    /\ ticket = NoTicket
    /\ ticket' = transform_amadeus_offer_to_ticket(offer)
    /\ UNCHANGED <<offer, verdict, batchVars, statsVars, dbVars>>

NextT == Transform

SpecT == InitT /\ [][NextT]_vars

\* the validator and the transformer, each called on the same offer, over
\* every offer of Offers
NextVT == Validate \/ Transform

SpecVT == InitV /\ [][NextVT]_vars

(***************************************************************************)
(* FlightTicketTransformer.transform_amadeus_offers_batch                  *)
(***************************************************************************)
MaxOffers == 3      \* longest batch of offers

OneWay(id, seg, price) ==
    [id |-> id, itineraries |-> List(<< [segments |-> List(<< seg >>)] >>), price |-> price]

\* the offers of the mixed batches: complete ones, one without itineraries,
\* one without price.total, one whose price is null
BatchOfferSet ==
    { OneWay("1", Seg(P("SYD", "T1"), P("BKK", "T2")), Price("229.47")),
      OneWay("3", Seg(P("LAX", "T3"), P("JFK", "T4")), Price("350.00")),
      [id |-> "2", itineraries |-> List(<< >>), price |-> Price("100.00")],
      OneWay("4", Seg(P("SYD", "T1"), P("BKK", "T2")), Price("absent")),
      OneWay("5", Seg(P("LAX", "T3"), P("JFK", "T4")), [tag |-> "null", total |-> "absent"]) }

OfferBatches == UNION { [1..n -> BatchOfferSet] : n \in 0..MaxOffers }

Returned(list) == [kind |-> "list", list |-> list]

\* variant: the loop ends at the first offer that gives no record
transform_amadeus_offers_batch_Aborts(os) ==
    LET made == [n \in DOMAIN os |-> transform_amadeus_offer_to_ticket(os[n])]
        stop == { n \in DOMAIN os : made[n].kind # "record" }
        last == IF stop = {} THEN Len(os)
                ELSE (CHOOSE n \in stop : \A m \in stop : n <= m) - 1
    IN  SubSeq(made, 1, last)

\* for offer in offers: record = transform(offer); if record: append.
\* `if not offers: return []` is the same list.  An exception of the call
\* would be skipped by `except Exception: continue`.
transform_amadeus_offers_batch(os) ==
    LET made == [n \in DOMAIN os |-> transform_amadeus_offer_to_ticket(os[n])]
    IN  SelectSeq(made, LAMBDA r : r.kind = "record")

InitB ==
    /\ InitHandler([s \in Sinks |-> "ok"], << >>)
    /\ offer = << >>
    /\ verdict = NoVerdict
    /\ ticket = NoTicket
    /\ offers \in OfferBatches
    /\ transformed_records = NoBatch
    /\ NoStatsCall

\* transformer.transform_amadeus_offers_batch(offers)
TransformBatch ==
    /\ transformed_records = NoBatch
    /\ transformed_records' = Returned(transform_amadeus_offers_batch(offers))
    /\ UNCHANGED <<offer, verdict, ticket, offers, statsVars, dbVars>>

NextB == TransformBatch

SpecB == InitB /\ [][NextB]_vars

(***************************************************************************)
(* FlightTicketTransformer.get_transformation_stats                        *)
(*                                                                         *)
(* success_rate is kept in hundredths of a percent: 7000 stands for 70.0.  *)
(***************************************************************************)
MaxCount == 10      \* largest number of offers counted

\* variant: the rate is cut after two decimals
round2_Truncates(num, den) == (num * 10000) \div den

\* round(num / den * 100, 2): the nearest hundredth, a tie to the even one
round2(num, den) ==
    LET q == (num * 10000) \div den
        r == (num * 10000) % den
    IN  IF 2 * r > den \/ (2 * r = den /\ q % 2 = 1) THEN q + 1 ELSE q

get_transformation_stats(oc, tc) ==
    [ original_count |-> oc,
      transformed_count |-> tc,
      failed_count |-> oc - tc,
      success_rate |-> IF oc > 0 THEN round2(tc, oc) ELSE 0 ]

InitS ==
    /\ InitHandler([s \in Sinks |-> "ok"], << >>)
    /\ offer = << >>
    /\ verdict = NoVerdict
    /\ ticket = NoTicket
    /\ NoBatchCall
    /\ original_count \in 0..MaxCount
    /\ transformed_count \in 0..original_count
    /\ stats = NoStats

\* transformer.get_transformation_stats(len(offers), len(results))
Stats ==
    /\ stats = NoStats
    /\ stats' = get_transformation_stats(original_count, transformed_count)
    /\ UNCHANGED <<offer, verdict, ticket, batchVars, original_count,
                   transformed_count, dbVars>>

NextS == Stats

SpecS == InitS /\ [][NextS]_vars

(***************************************************************************)
(* Properties                                                              *)
(***************************************************************************)
\* a sink has just been processed: the loop is about to take the next one
JustDone == pc = "loop" /\ cur > 1

doneSink == engines[cur - 1]

AllBound == \A n \in DOMAIN records : records[n].bound

DistinctKeys == \A m, n \in DOMAIN records : m # n => records[m].key # records[n].key

RecordKeys == { records[n].key : n \in DOMAIN records }

\* the submitted records are well formed, mutually non-colliding and none of
\* them is stored in rows
Fresh(rows) == AllBound /\ DistinctKeys /\ RecordKeys \cap KeysOf(rows) = {}

\* the schema step of the sink went through without any failed statement
SchemaClean == log # << >> /\ log[1].op = "indexes" /\ log[1].ok

IndexFailed == log # << >> /\ log[1].op = "indexes" /\ ~log[1].ok

Pos(op, at) == { n \in DOMAIN log : log[n].op = op /\ log[n].at = at }

ChunkOffsets == { c \in 0..(Len(records) - 1) : c % batch_size = 0 }

RecsOf(c) == (c + 1)..Min(c + batch_size, Len(records))

\* C1 (sink isolation): a call always returns with an entry for every sink
\* that has an engine; a sink that failed (unreachable, schema or index
\* failure, exception in its scope) reports 0, and a sink whose transaction
\* committed reports Len(records) when the records are well formed,
\* non-colliding and not previously stored.
C1_SinkIsolation ==
    /\ \A s \in DOMAIN results :
          outcome[s] \in {"unreachable", "raised"} => results[s] = 0
    /\ JustDone =>
          /\ doneSink \in DOMAIN results
          /\ IndexFailed => results[doneSink] = 0
          /\ (outcome[doneSink] = "committed" /\ Fresh(preRows))
                => results[doneSink] = Len(records)
    /\ (pc = "idle" /\ runs > 0) =>
          \A n \in DOMAIN engines : engines[n] \in DOMAIN results

C1_Witness ==
    /\ pc = "idle" /\ runs = 1 /\ ones = 0
    /\ database_configs["airflow"] = "unreachable"
    /\ DOMAIN results = Sinks
    /\ results["airflow"] = 0
    /\ outcome["main_app"] = "committed"
    /\ Len(records) = 3 /\ AllBound /\ DistinctKeys
    /\ results["main_app"] = 3

\* C2: the returned map has one entry for every configured sink, 0 for a
\* sink whose engine could not be created.
C2_EveryConfiguredSinkReported ==
    (pc = "idle" /\ runs > 0) =>
        /\ DOMAIN results = Sinks
        /\ \A s \in Sinks : database_configs[s] = "badurl" => results[s] = 0

\* C3: when an exception leaves the scope of a sink, the sink holds exactly
\* the rows it held before the call, its result is 0 and the later sinks
\* are processed.
C3_EscapeRollsBack ==
    /\ (JustDone /\ outcome[doneSink] = "raised") =>
          /\ table[doneSink] = preRows
          /\ results[doneSink] = 0
    /\ (pc = "idle" /\ runs > 0) =>
          \A m, n \in DOMAIN engines :
              (outcome[engines[m]] = "raised" /\ m < n)
                 => (engines[n] \in DOMAIN results /\ outcome[engines[n]] # "none")

C3_Witness ==
    /\ JustDone
    /\ outcome[doneSink] = "raised"
    /\ cur <= Len(engines)
    /\ \E n \in DOMAIN log : log[n].op = "bulk" /\ log[n].ok

\* C4: when write-batch has returned, every chunk has exactly one bulk
\* attempt; a chunk whose bulk attempt succeeded has no individual attempt;
\* a chunk whose bulk attempt failed has exactly one individual attempt for
\* each of its records, issued in order right after the bulk attempt,
\* whatever the outcome of the earlier ones.
C4_FallbackPerChunk ==
    pc = "commit" =>
        \A c \in ChunkOffsets :
            /\ Cardinality(Pos("bulk", c)) = 1
            /\ \A b \in Pos("bulk", c) :
                  \A p \in RecsOf(c) :
                      IF log[b].ok
                      THEN Pos("one", p) = {}
                      ELSE Pos("one", p) = {b + (p - c)}

C4_Witness ==
    /\ pc = "commit"
    /\ Len(log) = 5
    /\ log[2] = Event("bulk", 0, FALSE)
    /\ log[3] = Event("one", 1, FALSE)
    /\ log[4] = Event("one", 2, TRUE)
    /\ log[5] = Event("bulk", 2, TRUE)

\* C5: the count reported for a sink is the number of record writes that
\* the sink's commit made durable.
C5_CountIsPersisted ==
    JustDone => results[doneSink] = durable[doneSink]

\* C6: a successful insert_flight_ticket leaves exactly one row for the
\* record's natural key, carrying the record's values; if the key was
\* already stored the row is updated in place (updated_at advances) and no
\* other row changes.
UpsertPost(r, pre, post) ==
    /\ Cardinality({ n \in DOMAIN post : post[n].key = r.key }) = 1
    /\ \A n \in DOMAIN post : post[n].key = r.key => post[n].val = r.val
    /\ r.key \in KeysOf(pre) =>
          /\ Len(post) = Len(pre)
          /\ \A n \in DOMAIN pre : pre[n].key = r.key => post[n].rev = pre[n].rev + 1
    /\ \A n \in DOMAIN pre : pre[n].key # r.key => post[n] = pre[n]

C6_IdempotentUpsert ==
    [][ /\ (pc = "fallback" /\ Len(log') = Len(log) + 1 /\ log'[Len(log')].ok)
            => UpsertPost(batch[j], txRows, txRows')
        /\ (ones' = ones + 1 /\ log'[1].ok)
            => UpsertPost(log'[1].rec, table[log'[1].sink], table'[log'[1].sink])
      ]_vars

\* the row of key 1 was created by the fallback upsert of the first call
\* (its chunk holds a record that cannot be bound) and then written again
C6_Witness ==
    /\ runs = 1 /\ ones = 1
    /\ records = << Rec(1, 1, TRUE), Rec(2, 2, FALSE) >>
    /\ log = << [op |-> "writeOne", sink |-> "airflow", rec |-> Rec(1, 2, TRUE), ok |-> TRUE] >>
    /\ table["airflow"] = << [key |-> 1, val |-> 2, rev |-> 1] >>

\* C7: for well-formed, non-colliding, not yet stored records, a sink whose
\* bulk insert failed and whose fallback ran ends with the same rows and the
\* same count as when the bulk insert succeeds.
C7_FallbackEquivalence ==
    ( /\ JustDone
      /\ outcome[doneSink] \in {"committed", "rolledback"}
      /\ SchemaClean
      /\ Fresh(preRows)
      /\ \E n \in DOMAIN log : log[n].op = "bulk" /\ ~log[n].ok )
    => /\ table[doneSink] = batch_insert_query(preRows, records)
       /\ results[doneSink] = Len(records)

\* C8: a second call with a batch that the sink already holds commits,
\* reports every record as written and leaves one row per natural key.
C8_IdempotentRerun ==
    ( /\ JustDone
      /\ runs = 2
      /\ outcome[doneSink] \in {"committed", "rolledback"}
      /\ SchemaClean
      /\ Len(records) > 0 /\ AllBound
      /\ RecordKeys = KeysOf(preRows) )
    => /\ outcome[doneSink] = "committed"
       /\ results[doneSink] = Len(records)
       /\ Unique(table[doneSink])
       /\ KeysOf(table[doneSink]) = RecordKeys

\* C9: no two rows of flight_tickets share a natural key, in the committed
\* table of every sink and in the view of the open transaction.
C9_NaturalKeyUnique ==
    /\ \A s \in Sinks : Unique(table[s])
    /\ Unique(txRows)

\* a bulk insert that collides with stored rows has just been rejected
C9_Witness ==
    /\ pc = "fallback" /\ j = 1
    /\ Len(txRows) >= 2
    /\ ~ClientError(batch)
    /\ UniqueViolation(txSchema, txRows, batch)


\* the offers the claim lists: a required field is lacking, there is no
\* itinerary, an itinerary has no segment, a segment lacks a departure or
\* arrival iataCode or timestamp, or price.total is lacking or empty
AllSegments(o) ==
    { o.itineraries.items[m].segments.items[n] :
        <<m, n>> \in { <<m, n>> \in (1..MaxItins) \X (1..MaxSegs) :
                        /\ m \in DOMAIN o.itineraries.items
                        /\ n \in DOMAIN o.itineraries.items[m].segments.items } }

Defective(o) ==
    \/ o.id = "absent" \/ o.itineraries.tag = "absent" \/ o.price.tag = "absent"
    \/ FalsyList(o.itineraries)
    \/ \E m \in DOMAIN o.itineraries.items : FalsyList(o.itineraries.items[m].segments)
    \/ \E g \in AllSegments(o) :
          \/ FalsyLeaf(g.departure.iataCode) \/ FalsyLeaf(g.arrival.iataCode)
          \/ FalsyLeaf(g.departure.at) \/ FalsyLeaf(g.arrival.at)
    \/ FalsyLeaf(o.price.total)

\* C10 (validation completeness): the validator ends with a validation
\* error exactly on the listed offers and accepts every other offer.
C10_ValidationComplete ==
    verdict # NoVerdict =>
        /\ Defective(offer) <=> verdict.kind = "DataValidationError"
        /\ ~Defective(offer) <=> verdict = Valid


\* the number of the check (section 4.1 of the specification) that a
\* validation message reports
CheckOf(msg) ==
    CASE msg \in { "Missing required field: id",
                   "Missing required field: itineraries",
                   "Missing required field: price" } -> 1
      [] msg = "No itineraries found in offer" -> 2
      [] msg = "No segments found in itinerary" -> 3
      [] msg = "Invalid airport codes in segment" -> 4
      [] msg = "Missing departure/arrival times" -> 5
      [] msg = "Missing price information" -> 6
      [] OTHER -> 0

\* the checks 1..6 that the offer violates somewhere
ViolatedChecks(o) ==
    { c \in 1..6 :
        \/ c = 1 /\ (o.id = "absent" \/ o.itineraries.tag = "absent" \/ o.price.tag = "absent")
        \/ c = 2 /\ FalsyList(o.itineraries)
        \/ c = 3 /\ \E m \in DOMAIN o.itineraries.items :
                        FalsyList(o.itineraries.items[m].segments)
        \/ c = 4 /\ \E g \in AllSegments(o) :
                        FalsyLeaf(g.departure.iataCode) \/ FalsyLeaf(g.arrival.iataCode)
        \/ c = 5 /\ \E g \in AllSegments(o) :
                        FalsyLeaf(g.departure.at) \/ FalsyLeaf(g.arrival.at)
        \/ c = 6 /\ FalsyLeaf(o.price.total) }

\* C11 (check order): a validation error reports the lowest-numbered check
\* that the offer violates anywhere: every check with a smaller number
\* holds on the whole offer.
C11_LowestCheckReported ==
    verdict.kind = "DataValidationError" =>
        /\ CheckOf(verdict.msg) \in ViolatedChecks(offer)
        /\ \A c \in ViolatedChecks(offer) : CheckOf(verdict.msg) <= c


\* C12: transform_amadeus_offer_to_ticket returns to its caller for every
\* offer, with None or with a record: a record exactly when the validator
\* accepts the offer, None when it rejects the offer or faults.
C12_TransformNeverRaises ==
    ticket # NoTicket =>
        /\ ticket.kind \in {"None", "record"}
        /\ ticket.kind = "record" <=> validate_amadeus_offer(offer) = Valid

\* an offer on which the validator faults (None.get) came back as None
C12_Witness ==
    /\ ticket.kind = "None"
    /\ validate_amadeus_offer(offer).kind = "AttributeError"

\* C13 (leg extraction): the record of an accepted offer has origin and
\* departure_time of the first segment of the first itinerary, destination
\* and arrival_time of the last segment of the last itinerary, notes = the
\* offer id, no seat number and the default user id.
C13_LegExtraction ==
    ticket.kind = "record" =>
        LET itineraries == offer.itineraries.items
            first_segments == itineraries[1].segments.items
            last_segments == itineraries[Len(itineraries)].segments.items
            first_leg == first_segments[1]
            last_leg == last_segments[Len(last_segments)]
        IN  /\ ticket.origin = first_leg.departure.iataCode
            /\ ticket.departure_time = first_leg.departure.at
            /\ ticket.destination = last_leg.arrival.iataCode
            /\ ticket.arrival_time = last_leg.arrival.at
            /\ ticket.notes = offer.id
            /\ ticket.seat_number = "null"
            /\ ticket.user_id = default_user_id

\* two itineraries of two segments each whose inner legs end elsewhere
C13_Witness ==
    /\ ticket.kind = "record"
    /\ Len(offer.itineraries.items) = 2
    /\ \A n \in 1..2 : Len(offer.itineraries.items[n].segments.items) = 2
    /\ offer.itineraries.items[1].segments.items[2].arrival.iataCode = "JFK"
    /\ offer.itineraries.items[2].segments.items[1].departure.iataCode = "LAX"
    /\ ticket.origin = "SYD" /\ ticket.destination = "BKK"


\* the positions of the offers that transform_amadeus_offer_to_ticket accepts
Accepted == { n \in DOMAIN offers : transform_amadeus_offer_to_ticket(offers[n]).kind = "record" }

\* C14: the batch returns one record for each accepted offer and nothing
\* else, in the order of the offers: the record of the k-th accepted offer
\* is the k-th element, whatever the other offers of the batch are.
C14_BatchKeepsAccepted ==
    transformed_records # NoBatch =>
        /\ Len(transformed_records.list) = Cardinality(Accepted)
        /\ \A n \in Accepted :
              transformed_records.list[Cardinality({ m \in Accepted : m <= n })]
                 = transform_amadeus_offer_to_ticket(offers[n])

\* a complete offer, one without itineraries, one without price.total
C14_Witness ==
    /\ offers = << [id |-> "2", itineraries |-> List(<< >>), price |-> Price("100.00")],
                   OneWay("4", Seg(P("SYD", "T1"), P("BKK", "T2")), Price("absent")),
                   OneWay("1", Seg(P("SYD", "T1"), P("BKK", "T2")), Price("229.47")) >>
    /\ transformed_records.kind = "list"
    /\ Len(transformed_records.list) = 1
    /\ transformed_records.list[1].notes = "1"


\* C15 as stated: failed = submitted - written, and the success rate is
\* written / submitted * 100 exactly (0 when nothing was submitted).
C15_ExactRate ==
    stats # NoStats =>
        /\ stats.failed_count = original_count - transformed_count
        /\ stats.failed_count + transformed_count = original_count
        /\ original_count = 0 => stats.success_rate = 0
        /\ original_count > 0 =>
              stats.success_rate * original_count = transformed_count * 10000

\* C15 (stats arithmetic), amended: failed = submitted - written, and the
\* success rate is written / submitted * 100 rounded to the nearest
\* hundredth, 0 when nothing was submitted; stats(10, 7) has failed 3 and
\* rate 70.0, stats(0, 0) has rate 0.
C15_RoundedRate ==
    stats # NoStats =>
        /\ stats.failed_count = original_count - transformed_count
        /\ stats.failed_count + transformed_count = original_count
        /\ original_count = 0 => stats.success_rate = 0
        /\ original_count > 0 =>
              LET off == stats.success_rate * original_count - transformed_count * 10000
              IN  2 * off <= original_count /\ 2 * off >= -original_count
        /\ (original_count = 10 /\ transformed_count = 7) =>
              stats.failed_count = 3 /\ stats.success_rate = 7000

\* two offers of three were transformed: 66.67
C15_Witness ==
    /\ original_count = 3 /\ transformed_count = 2
    /\ stats # NoStats
    /\ stats.failed_count = 1
    /\ stats.success_rate = 6667


\* C16 (idempotent schema): a call of create_flight_tickets_table on a sink
\* that already has the table, the constraint or the indexes raises no
\* "already exists" error, and whenever the call went through, the
\* transaction sees the table, one constraint and the NumIndexes indexes, as
\* after the first call; a sink's committed schema is that or nothing.
C16_SchemaIdempotent ==
    /\ pc = "schema" => ~DuplicateObject(txSchema) /\ ~DuplicateIndex(txSchema)
    /\ (pc \in {"batch", "fallback", "commit"} /\ SchemaClean) => txSchema = FullSchema
    /\ \A s \in Sinks : schema[s] \in {NoSchema, FullSchema}

\* the second call on a sink whose schema the first call committed
C16_Witness ==
    /\ runs = 2
    /\ pc = "batch"
    /\ schema[sink] = FullSchema
    /\ SchemaClean
    /\ txSchema = FullSchema


\* C17: when CREATE TABLE or ADD CONSTRAINT fails for a sink, the sink is
\* left at once with result 0 and no insert statement; the step changes no
\* other result, no table or schema and not the submitted records, so the
\* sinks that follow start from what they would have started from; and
\* nothing is issued on the failed sink afterwards.
C17_SchemaFailureIsFatal ==
    [][ /\ (pc = "schema" /\ log' # << >> /\ log'[1].op = "schema") =>
              /\ pc' = "loop"
              /\ cur' = cur + 1
              /\ Len(log') = 1
              /\ results' = SetResult(results, sink, 0)
              /\ table' = table /\ schema' = schema
              /\ records' = records /\ engines' = engines
              /\ database_configs' = database_configs
        /\ (pc # "schema" /\ log # << >> /\ log[1].op = "schema") =>
              \/ log' = log
              \/ log' = << >>
              \/ Len(log') = 1 /\ log'[1].op = "writeOne"
      ]_vars

\* the second sink failed in its schema step after the first one committed
C17_Witness ==
    /\ pc = "loop" /\ cur = 3
    /\ log = << Event("schema", 0, FALSE) >>
    /\ Len(records) = 3
    /\ outcome["airflow"] = "committed"
    /\ results = [airflow |-> 3, main_app |-> 0]
    /\ table["main_app"] = << >>


\* C18: a sink one of whose index statements failed still commits and
\* reports the count it reports when every index is created: Len(records)
\* for well-formed, non-colliding records that the sink does not hold.
C18_IndexFailureHarmless ==
    ( /\ JustDone
      /\ IndexFailed
      /\ outcome[doneSink] \in {"committed", "rolledback"}
      /\ Fresh(preRows) )
    => /\ outcome[doneSink] = "committed"
       /\ results[doneSink] = Len(records)
       /\ table[doneSink] = batch_insert_query(preRows, records)


\* the moves of the coordinator: a sink is NOT_STARTED up to "schema",
\* SCHEMA_READY when it enters "batch", BATCH_ATTEMPTED / BATCH_OK /
\* FALLBACK_ATTEMPTED in "batch" and "fallback", and DONE when the
\* coordinator is back in "loop"
SinkMoves ==
    { <<"idle", "loop">>, <<"idle", "idle">>, <<"loop", "idle">>, <<"loop", "loop">>,
      <<"loop", "schema">>, <<"schema", "batch">>, <<"schema", "loop">>,
      <<"batch", "batch">>, <<"batch", "fallback">>, <<"fallback", "fallback">>,
      <<"fallback", "batch">>, <<"batch", "commit">>, <<"commit", "loop">> }

\* the offset of the chunk that holds the record at position p
ChunkOf(p) == ((p - 1) \div batch_size) * batch_size

\* C19 (per-sink state machine): the coordinator only makes the moves of the
\* state machine; an insert statement is issued only inside the sink's open
\* transaction after the schema step of that transaction went through; an
\* individual upsert only when the latest bulk insert was of the record's
\* chunk and failed; and once the sink is done nothing is added to its
\* statements.
C19_SinkStateMachine ==
    [][ /\ <<pc, pc'>> \in SinkMoves
        /\ (Len(log') = Len(log) + 1 /\ log'[Len(log')].op \in {"bulk", "one"}) =>
              /\ pc \in {"batch", "fallback"}
              /\ txState # "none"
              /\ log # << >> /\ log[1].op = "indexes"
              /\ SubSeq(log', 1, Len(log)) = log
              /\ log'[Len(log')].op = "one" =>
                    \E b \in DOMAIN log :
                        /\ log[b] = Event("bulk", ChunkOf(log'[Len(log')].at), FALSE)
                        /\ \A n \in (b + 1)..Len(log) : log[n].op = "one"
        /\ (pc \in {"loop", "idle"} /\ log' # log) =>
              \/ log' = << >>
              \/ Len(log') = 1 /\ log'[1].op = "writeOne"
      ]_vars

\* a sink that went through a failed bulk insert, its fallback and a
\* successful bulk insert, and is done
C19_Witness ==
    /\ pc = "loop" /\ cur = 2
    /\ outcome["airflow"] = "committed"
    /\ log[1] = Event("indexes", 0, TRUE)
    /\ \E n \in DOMAIN log : log[n].op = "one" /\ log[n].ok
    /\ \E n \in DOMAIN log : log[n].op = "bulk" /\ log[n].ok


\* C20 (sequential sinks): at most one sink has a transaction open, and it
\* is the sink the loop is at; the sinks before it in configuration order
\* have ended (their transaction committed or rolled back, their result
\* stored) and the sinks after it have not been touched.
C20_OneSinkAtATime ==
    /\ Cardinality(open) <= 1
    /\ pc \in {"idle", "loop"} => open = {} /\ txState = "none"
    /\ pc \in {"schema", "batch", "fallback", "commit"} =>
          open = {sink} /\ txState # "none"
    /\ pc # "idle" =>
          \A n \in DOMAIN engines :
              /\ n < cur => outcome[engines[n]] # "none" /\ engines[n] \in DOMAIN results
              /\ n >= cur => outcome[engines[n]] = "none" /\ engines[n] \notin DOMAIN results
    /\ \A m, n \in DOMAIN engines :
          m < n => \E a, b \in DOMAIN SinkOrder :
                      a < b /\ SinkOrder[a] = engines[m] /\ SinkOrder[b] = engines[n]

\* the transaction of the second sink is open after the first one committed
C20_Witness ==
    /\ pc = "batch" /\ cur = 2
    /\ open = {"main_app"}
    /\ outcome["airflow"] = "committed"
    /\ results["airflow"] = Len(records) /\ Len(records) = 3


\* C21 (independent commits): while a call works on a sink, no step changes
\* the committed rows or schema of any other sink, or the result stored for
\* a sink that has been processed: what an earlier sink committed and
\* reported stays whatever happens in the later ones.
C21_IndependentCommit ==
    [][ pc # "idle" =>
          \A s \in Sinks :
              (cur > Len(engines) \/ s # sink) =>
                  /\ table'[s] = table[s]
                  /\ schema'[s] = schema[s]
                  /\ s \in DOMAIN results =>
                        s \in DOMAIN results' /\ results'[s] = results[s]
      ]_vars

\* the first sink committed three rows, then the second one ended with an
\* exception
C21_Witness ==
    /\ pc = "loop" /\ cur = 3
    /\ outcome = [airflow |-> "committed", main_app |-> "raised"]
    /\ results = [airflow |-> 3, main_app |-> 0]
    /\ Len(table["airflow"]) = 3
    /\ txWrites = 0 /\ table["main_app"] = << >>


\* the offset of the chunk an insert statement belongs to
EventChunk(e) == IF e.op = "bulk" THEN e.at ELSE ChunkOf(e.at)

\* C22 (input order): the insert statements of a sink follow the input
\* order.  The first is the bulk insert of chunk 0; a bulk insert of the
\* next chunk follows only a successful bulk insert or the upsert of the
\* last record of the chunk before; an individual upsert follows the failed
\* bulk insert of its chunk (first record) or the upsert of the record just
\* before it in the same chunk.
C22_InputOrder ==
    (log # << >> /\ log[1].op = "indexes") =>
        \A n \in 2..Len(log) :
            /\ log[n].op \in {"bulk", "one"}
            /\ log[n].op = "bulk" =>
                  \/ n = 2 /\ log[n].at = 0
                  \/ /\ n > 2
                     /\ log[n].at = EventChunk(log[n - 1]) + batch_size
                     /\ \/ log[n - 1].op = "bulk" /\ log[n - 1].ok
                        \/ /\ log[n - 1].op = "one"
                           /\ log[n - 1].at = Min(log[n].at, Len(records))
            /\ log[n].op = "one" =>
                  /\ n > 2
                  /\ log[n].at = log[n - 1].at + 1
                  /\ ChunkOf(log[n].at) = EventChunk(log[n - 1])
                  /\ log[n - 1].op = "bulk" => ~log[n - 1].ok

\* both chunks of three records failed as bulk inserts; the records of the
\* first were tried one by one before the second bulk insert
C22_Witness ==
    /\ pc = "fallback" /\ i = 2 /\ j = 1
    /\ Len(records) = 3
    /\ Len(log) = 5
    /\ log[2] = Event("bulk", 0, FALSE)
    /\ log[3].op = "one" /\ log[3].at = 1
    /\ log[4].op = "one" /\ log[4].at = 2
    /\ log[5] = Event("bulk", 2, FALSE)


\* ceil(n / d)
Ceil(n, d) == (n + d - 1) \div d

\* the offsets of the bulk inserts in the statement log
BulkOffsets == { log[n].at : n \in { m \in DOMAIN log : log[m].op = "bulk" } }

\* C23 (chunking): each bulk insert is attempted at a multiple of
\* batch_size and carries the records from there up to batch_size further
\* (all of them when it succeeds): never none, exactly batch_size unless the
\* list ends before; when write-batch returns, ceil(n / batch_size) bulk
\* inserts have been attempted, one per chunk, every record lies in exactly
\* one of the chunks, and an empty list has none and returns 0.
C23_ChunkPartition ==
    [][ /\ (pc = "batch" /\ i < Len(records) /\ log' # log) =>
              /\ i % batch_size = 0
              /\ Len(batch) >= 1 /\ Len(batch) <= batch_size
              /\ i + batch_size <= Len(records) => Len(batch) = batch_size
              /\ i + batch_size > Len(records) => Len(batch) = Len(records) - i
              /\ \A k \in 1..Len(batch) : batch[k] = records[i + k]
              /\ \E ok \in BOOLEAN :
                    /\ log' = Append(log, Event("bulk", i, ok))
                    /\ ok => /\ Len(txRows') = Len(txRows) + Len(batch)
                             /\ \A k \in 1..Len(batch) :
                                   txRows'[Len(txRows) + k] = NewRow(records[i + k])
                             /\ successful_inserts' = successful_inserts + Len(batch)
        /\ (pc = "batch" /\ pc' = "commit") =>
              /\ Cardinality(Pos("bulk", 0) \cup { n \in DOMAIN log : log[n].op = "bulk" })
                    = Ceil(Len(records), batch_size)
              /\ BulkOffsets = ChunkOffsets
              /\ \A p \in DOMAIN records :
                    Cardinality({ c \in BulkOffsets : p \in RecsOf(c) }) = 1
              /\ records = << >> => Len(log) = 1 /\ successful_inserts = 0
      ]_vars

\* three records went in as a chunk of two and a chunk of one
C23_Witness ==
    /\ pc = "commit"
    /\ Len(records) = 3
    /\ log = << Event("indexes", 0, TRUE), Event("bulk", 0, TRUE), Event("bulk", 2, TRUE) >>
    /\ successful_inserts = 3
    /\ Len(txRows) = Len(preRows) + 3


\* C24 (totality of the validator): on every offer, the offers with a
\* null field included, the validator ends in success or in a
\* DataValidationError, never in another fault.
C24_ValidatorTotal ==
    verdict # NoVerdict => verdict.kind \in {"ok", "DataValidationError"}


\* every sink of self.engines has its entry in results
AllSinksDone ==
    \A n \in DOMAIN engines :
        engines[n] \in DOMAIN results /\ outcome[engines[n]] # "none"

\* C25 (termination): when every database call returns, a call of
\* bulk_insert_flight_tickets in progress eventually returns, and when it
\* does every sink of self.engines is done, whatever failed on the sinks
\* before it.
C25_Termination == (pc # "idle") ~> (pc = "idle" /\ AllSinksDone)

\* the call has returned: the first sink failed, the second one was written
C25_Witness ==
    /\ pc = "idle"
    /\ runs = 1
    /\ Len(records) = 3
    /\ outcome = [airflow |-> "raised", main_app |-> "committed"]
    /\ results = [airflow |-> 0, main_app |-> 3]


\* C26 (the submitted list): no step changes the list or a record of it;
\* every sink starts at the head of the list, and when its chunk loop ends
\* every record of the list was part of a bulk insert on this sink,
\* whatever the sinks before it did.
C26_WholeListOffered ==
    [][ /\ records' = records
        /\ (pc = "schema" /\ pc' = "batch") => i' = 0
        /\ (pc = "batch" /\ pc' = "commit") =>
              \A p \in DOMAIN records :
                  \E n \in DOMAIN log :
                      /\ log[n].op = "bulk"
                      /\ p \in RecsOf(log[n].at)
      ]_vars

\* the second sink was offered all three records after the first sink failed
C26_Witness ==
    /\ pc = "commit"
    /\ cur = 2
    /\ outcome["airflow"] = "raised"
    /\ results = [s \in {"airflow"} |-> 0]
    /\ Len(records) = 3
    /\ log = << Event("indexes", 0, TRUE), Event("bulk", 0, TRUE), Event("bulk", 2, TRUE) >>
    /\ txWrites = 3


\* C27 (durability of the reported count): after the call has returned, a
\* sink with a reported count c > 0 has committed, the commit made at least
\* c record writes durable, and at least c records of the list have their
\* natural key in the sink's committed table.
C27_ReportedIsDurable ==
    (pc = "idle" /\ runs > 0) =>
        \A s \in DOMAIN results :
            results[s] > 0 =>
                /\ outcome[s] = "committed"
                /\ results[s] <= durable[s]
                /\ results[s] <= Cardinality({ p \in DOMAIN records :
                                                  records[p].key \in KeysOf(table[s]) })


\* the record at position p was counted with its chunk's bulk insert
BulkCounted(p) ==
    \E n \in DOMAIN log : log[n].op = "bulk" /\ log[n].ok /\ p \in RecsOf(log[n].at)

\* the record at position p was counted with an individual upsert
OneCounted(p) ==
    \E n \in DOMAIN log : log[n].op = "one" /\ log[n].ok /\ log[n].at = p

\* C28 (bounds of the count): while a sink is written, successful_inserts is
\* the number of records counted so far, each of them once: with its
\* chunk's bulk insert or with its own upsert, never both and never twice;
\* so the count, and every reported count, lies between 0 and the number of
\* submitted records.
C28_CountBounds ==
    /\ pc \in {"batch", "fallback", "commit"} =>
          /\ successful_inserts
                = Cardinality({ p \in DOMAIN records : BulkCounted(p) \/ OneCounted(p) })
          /\ \A p \in DOMAIN records :
                /\ ~(BulkCounted(p) /\ OneCounted(p))
                /\ Cardinality({ n \in Pos("one", p) : log[n].ok }) <= 1
                /\ Cardinality({ n \in DOMAIN log :
                                    log[n].op = "bulk" /\ log[n].ok
                                    /\ p \in RecsOf(log[n].at) }) <= 1
          /\ 0 <= successful_inserts /\ successful_inserts <= Len(records)
    /\ \A s \in DOMAIN results : 0 <= results[s] /\ results[s] <= Len(records)

\* two of three records counted: one by its own upsert, one with its chunk
C28_Witness ==
    /\ pc = "commit"
    /\ Len(records) = 3
    /\ successful_inserts = 2
    /\ log = << Event("indexes", 0, TRUE), Event("bulk", 0, FALSE), Event("one", 1, TRUE),
                Event("one", 2, FALSE), Event("bulk", 2, TRUE) >>


\* the statements of the sink's log that carried the record at position p
Attempts(p) ==
    { n \in DOMAIN log :
        \/ log[n].op = "bulk" /\ p \in RecsOf(log[n].at)
        \/ log[n].op \in {"one", "whole"} /\ log[n].at = p }

\* C29 (at most two attempts): on a sink, a record is carried by at most
\* one bulk insert and at most one individual upsert, and by no statement
\* of _fallback_individual_inserts, which never runs.
C29_AtMostTwice ==
    (pc \in {"batch", "fallback", "commit"} \/ JustDone) =>
        /\ \A n \in DOMAIN log : log[n].op # "whole"
        /\ \A p \in DOMAIN records :
              /\ Cardinality(Attempts(p)) <= 2
              /\ Cardinality({ n \in Attempts(p) : log[n].op = "bulk" }) <= 1
              /\ Cardinality({ n \in Attempts(p) : log[n].op = "one" }) <= 1

\* both records of the list were attempted twice, and both upserts failed
C29_Witness ==
    /\ pc = "commit"
    /\ Len(records) = 2
    /\ log = << Event("indexes", 0, TRUE), Event("bulk", 0, FALSE),
                Event("one", 1, FALSE), Event("one", 2, FALSE) >>
    /\ successful_inserts = 0


\* C30 (accepted offers have legs): for an offer the validator accepts,
\* extract_flight_legs returns two legs, both non-empty, so the transformer
\* does not take its 'failed to extract flight legs' exit and returns a
\* record; and every record the transformer returns has a non-empty origin,
\* destination, departure time and arrival time.
C30_AcceptedHasLegs ==
    /\ verdict = Valid =>
          LET legs == extract_flight_legs(offer)
          IN  /\ legs.kind = "legs"
              /\ ~FalsyDict(legs.first_leg)
              /\ ~FalsyDict(legs.last_leg)
              /\ ticket # NoTicket => ticket.kind = "record"
    /\ ticket.kind = "record" =>
          /\ ~FalsyLeaf(ticket.origin)
          /\ ~FalsyLeaf(ticket.destination)
          /\ ~FalsyLeaf(ticket.departure_time)
          /\ ~FalsyLeaf(ticket.arrival_time)

\* an accepted offer of two itineraries and its record
C30_Witness ==
    /\ verdict = Valid
    /\ Len(offer.itineraries.items) = 2
    /\ ticket.kind = "record"
    /\ ticket.origin = "SYD"
    /\ ticket.destination = "JFK"
    /\ ticket.departure_time = "T1"
    /\ ticket.arrival_time = "T4"

====
